---- MODULE Spec2Model ----
(***************************************************************************)
(* Champion-selection observer: the event-ingestion unit                   *)
(* (threads/websocket_thread.py, WSEventThread), the countdown ticker it   *)
(* arms, and the connection manager (lcu/client.py, LCU).                  *)
(*                                                                         *)
(* Python None in an integer field is NoneVal (-1); a field value that     *)
(* int() rejects (a malformed payload field) is BadVal (-2).               *)
(***************************************************************************)
EXTENDS Integers, Sequences, FiniteSets, TLC

\* ------------------------------------------------------------------ bounds
MaxCell  == 1      \* player slots are 0..MaxCell
MaxChamp == 1      \* character ids are 1..MaxChamp
MaxLeft  == 2      \* largest remaining time a payload or a probe reports
MaxNow   == 2      \* the monotonic clock runs 0..MaxNow
MaxArm   == 2      \* armings that take effect in one run
MaxMtime == 3      \* the lockfile is written at most MaxMtime times
MaxSample == 1     \* re-samples one ticker makes

\* --------------------------------------------------------------- constants
ProbeTries == 8    \* range(8) in _maybe_start_timer

NoneVal == 0 - 1
BadVal  == 0 - 2

Cells  == 0 .. MaxCell
Champs == 1 .. MaxChamp
EmptyMap == [c \in {} |-> 0]

Max(a, b) == IF a >= b THEN a ELSE b
Keys(m) == DOMAIN m

VARIABLES
  state,    \* SharedState: the fields both units read and write
  pc,       \* the ingestion unit: "recv" (waiting for a frame), "probe", "arm"
  loc,      \* locals of _maybe_start_timer: phase_timer, left_ms, probe_used,
            \* i (probe reads made), reported (the payload's remaining time)
  tickers,  \* every LoadoutTicker thread started so far: [ticker_id, alive,
            \* last (the value last emitted), epoch, start (when it was
            \* started), samples (re-samples made), snap (re-sampled since
            \* the last emission)]
  ticker,   \* self.ticker: index into tickers, 0 is None
  now,      \* time.monotonic()
  out,      \* what the handling of the last API event emitted
  epochs,   \* history: [seq, status] of each countdown epoch, in arming order
  fs,       \* the lockfile on disk: [exists, mtime, good]; its port and
            \* password are those of its mtime-th writing
  lcu,      \* the LCU object's fields
  call,     \* one get() call in progress, made by a unit other than the
            \* ingestion loop: [pc, ok0, reqs, forced, first, last, result]
  loop      \* WSEventThread.run: [pc, ok0, built, url, origin, token,
            \* refreshed]

wsvars == <<state, pc, loc, tickers, ticker, now, out, epochs>>
lcuvars == <<fs, lcu, call, loop>>
vars == <<state, pc, loc, tickers, ticker, now, out, epochs, fs, lcu, call, loop>>

\* ------------------------------------------------------------- payloads
Phases == {"ChampSelect", "Lobby"}
HoverData == {NoneVal, BadVal, 0, 1}
TimerPhases == {"FINALIZATION", "BAN_PICK"}

\* A champion-selection session payload, reduced to the fields the handler reads:
\*   local   localPlayerCellId (NoneVal: key absent; BadVal: not an integer)
\*   team    the cellIds of myTeam and theirTeam together ({BadVal}: a malformed entry)
\*   act     per actor cell: -1 no action, 0 an action not completed, k > 0 a
\*           completed pick of character k
\*   tphase  timer.phase;  left  timer.adjustedTimeLeftInPhase (BadVal: malformed)
SessionSet(locals, teams, acts, lefts) ==
  [local : locals, team : teams, act : acts, tphase : TimerPhases, left : lefts]

Sessions ==
  SessionSet({NoneVal, 0, BadVal}, (SUBSET Cells) \cup {{BadVal}},
             [Cells -> (0 - 1) .. MaxChamp], {BadVal, 0, MaxLeft})

\* lcu/utils.py compute_locked: slot -> character for every completed pick
compute_locked(sess) ==
  [c \in {d \in Cells : sess.act[d] > 0} |-> sess.act[c]]

\* ---------------------------------------------------------- SharedState
InitState ==
  [phase |-> "None", hovered_champ_id |-> NoneVal, local_cell_id |-> NoneVal,
   locked_champ_id |-> NoneVal, players_visible |-> 0, locks_by_cell |-> EmptyMap,
   all_locked_announced |-> FALSE, loadout_countdown_active |-> FALSE,
   loadout_left0_ms |-> 0, loadout_t0 |-> 0, ticker_seq |-> 0, current_ticker |-> 0,
   stop |-> FALSE]

NoLoc == [phase_timer |-> "", left_ms |-> 0, probe_used |-> FALSE, i |-> 0,
          reported |-> 0]
\* out: kind "session" after a session update, "other" after a phase or hover
\*   event, "unrouted" after an event no branch handles, "dropped" after a
\*   frame that is no event;
\*   stage   the derivation that raised ("team", "local", "timer"), or "done"
\*   count   count_visible as recomputed (NoneVal: never computed)
\*   new     the payload's lock map
\*   added, removed   the slots logged "+1" and "-1";  fired   "ALL LOCKED" logged
\*   arm     what the arming attempt did: "" (none made), "noop", or the mode
\*           logged with "[loadout] start";  probed   probe_used at that attempt
NoOut == [kind |-> "other", stage |-> "done", count |-> NoneVal, new |-> EmptyMap,
          added |-> {}, removed |-> {}, fired |-> FALSE, arm |-> "",
          probed |-> FALSE]

\* ------------------------------------------------- _handle_api_event: phase
PhaseExitKeepsCountdown(st) ==
  [st EXCEPT !.hovered_champ_id = NoneVal, !.players_visible = 0,
             !.locks_by_cell = EmptyMap, !.all_locked_announced = FALSE]

PhaseExit(st) ==
  [st EXCEPT !.hovered_champ_id = NoneVal, !.players_visible = 0,
             !.locks_by_cell = EmptyMap, !.all_locked_announced = FALSE,
             !.loadout_countdown_active = FALSE]

\* Entering ChampSelect clears the hovered-skin caches and processed_action_ids,
\* which nothing else in these files writes; they are left out of the state.
HandlePhase(st, ph) ==
  IF ph = st.phase THEN st
  ELSE IF ph = "ChampSelect" THEN [st EXCEPT !.phase = ph]
  ELSE PhaseExit([st EXCEPT !.phase = ph])

\* ------------------------------------------------- _handle_api_event: hover
HoverCid(data) == IF data = BadVal THEN NoneVal ELSE data

HandleHover(st, data) ==
  LET cid == HoverCid(data) IN
  IF cid # NoneVal /\ cid # 0 /\ cid # st.hovered_champ_id
  THEN [st EXCEPT !.hovered_champ_id = cid] ELSE st

\* ----------------------------------------------- _handle_api_event: session
SessLocal(st, sess) ==
  [st EXCEPT !.local_cell_id = IF sess.local = NoneVal THEN @ ELSE sess.local]

TeamMalformed(sess) == BadVal \in sess.team

\* seen: the rosters' cellIds, or when there are none the actions' actorCellIds
Seen(sess) ==
  IF sess.team # {} THEN sess.team ELSE {c \in Cells : sess.act[c] >= 0}

CountVisible(sess) == Cardinality(Seen(sess))

SessVisibleAnyChange(st, sess) ==
  IF CountVisible(sess) # st.players_visible
  THEN [st EXCEPT !.players_visible = CountVisible(sess)] ELSE st

SessVisible(st, sess) ==
  IF CountVisible(sess) # st.players_visible /\ CountVisible(sess) > 0
  THEN [st EXCEPT !.players_visible = CountVisible(sess)] ELSE st

Added(prev, new) == Keys(new) \ Keys(prev)
Removed(prev, new) == Keys(prev) \ Keys(new)
MinOf(S) == CHOOSE x \in S : \A y \in S : x <= y

\* int(self.state.local_cell_id) raises in the first pass of the loop over added
LocalMalformed(st, sess) ==
  st.local_cell_id = BadVal /\ Added(st.locks_by_cell, compute_locked(sess)) # {}

StoredLocks(prev, new) == new

SessLocks(st, sess) ==
  LET new == compute_locked(sess)
      add == Added(st.locks_by_cell, new) IN
  [st EXCEPT !.locked_champ_id = IF st.local_cell_id \in add
                                 THEN new[st.local_cell_id] ELSE @,
             !.locks_by_cell = StoredLocks(st.locks_by_cell, new)]

LockedCount(st) == Cardinality(Keys(st.locks_by_cell))
AllLocked(st) == st.players_visible > 0 /\ LockedCount(st) >= st.players_visible
Fires(st) == AllLocked(st) /\ ~st.all_locked_announced

SessAllLocked(st) ==
  LET a == IF Fires(st) THEN TRUE ELSE st.all_locked_announced IN
  [st EXCEPT !.all_locked_announced =
               IF LockedCount(st) < st.players_visible THEN FALSE ELSE a]

TimerMalformed(sess) == sess.left = BadVal

DecideAnyPositive(st, sess) ==
  IF sess.left > 0 THEN "arm"
  ELSE IF AllLocked(st) THEN "probe" ELSE "recv"

\* _maybe_start_timer up to "if should_start": where the unit goes next
Decide(st, sess) ==
  IF sess.tphase = "FINALIZATION" /\ sess.left > 0 THEN "arm"
  ELSE IF AllLocked(st)
       THEN (IF sess.left <= 0 THEN "probe" ELSE "arm")
       ELSE "recv"

\* The whole handler for one session payload. An exception leaves the handler
\* at the statement that raised it (_on_message swallows it): stage names the
\* derivation that raised, "done" when none did.
HandleSession(st, sess) ==
  LET s1  == SessLocal(st, sess)
      s2  == SessVisible(s1, sess)
      new == compute_locked(sess)
      add == Added(s2.locks_by_cell, new)
      rem == Removed(s2.locks_by_cell, new)
      s3  == SessLocks(s2, sess)
      s4  == SessAllLocked(s3)
      o   == [kind |-> "session", stage |-> "done", count |-> CountVisible(sess),
              new |-> new, added |-> {}, removed |-> {}, fired |-> FALSE,
              arm |-> "", probed |-> FALSE]
  IN
  IF TeamMalformed(sess)
  THEN [st |-> s1, out |-> [o EXCEPT !.stage = "team", !.count = NoneVal], pc |-> "recv", loc |-> NoLoc]
  ELSE IF LocalMalformed(s2, sess)
  THEN [st |-> s2, out |-> [o EXCEPT !.stage = "local", !.added = {MinOf(add)}],
        pc |-> "recv", loc |-> NoLoc]
  ELSE IF TimerMalformed(sess)
  THEN [st |-> s4,
        out |-> [o EXCEPT !.stage = "timer", !.added = add, !.removed = rem,
                          !.fired = Fires(s3)],
        pc |-> "recv", loc |-> NoLoc]
  ELSE [st |-> s4,
        out |-> [o EXCEPT !.added = add, !.removed = rem, !.fired = Fires(s3)],
        pc |-> Decide(s4, sess),
        loc |-> IF Decide(s4, sess) = "recv" THEN NoLoc
                ELSE [phase_timer |-> sess.tphase, left_ms |-> sess.left,
                      probe_used |-> FALSE, i |-> 0, reported |-> sess.left]]

\* ------------------------------------------------------ epochs (history)
NonTerminal == {"armed", "ticking"}
MarkLast(es, from, to) ==
  IF Len(es) > 0 /\ es[Len(es)].status \in from
  THEN [es EXCEPT ![Len(es)].status = to] ELSE es

\* ------------------------------------------------------- lcu/client.py
\* LCU.__init__ before it calls _init_from_lockfile. fresh: self.s is a
\* Session object made by the latest call of __init__ or refresh_if_needed.
NewLCU ==
  [ok |-> FALSE, port |-> NoneVal, pw |-> NoneVal, base |-> NoneVal, s |-> NoneVal,
   lf_path |-> "None", lf_mtime |-> 0, fresh |-> FALSE]

NoCall == [pc |-> "idle", ok0 |-> FALSE, reqs |-> 0, forced |-> 0, first |-> "",
           last |-> "", result |-> ""]

\* _find_lockfile: the one place a lockfile can be
_find_lockfile(f) == IF f.exists THEN "lockfile" ELSE "None"

\* s is the password the requests.Session authenticates with (NoneVal: none)
_disable(l) ==
  [l EXCEPT !.ok = FALSE, !.base = NoneVal, !.port = NoneVal, !.pw = NoneVal,
            !.s = NoneVal, !.fresh = TRUE]

\* A lockfile that does not split into five fields, or whose port is not a
\* number, raises before any field is assigned.
_init_from_lockfile(l, f) ==
  LET lf == _find_lockfile(f)
      l1 == [l EXCEPT !.lf_path = lf] IN
  IF lf = "None" THEN _disable(l1)
  ELSE IF f.good
       THEN [l1 EXCEPT !.port = f.mtime, !.pw = f.mtime, !.base = f.mtime,
                       !.s = f.mtime, !.ok = TRUE, !.lf_mtime = f.mtime,
                       !.fresh = TRUE]
       ELSE _disable(l1)

refresh_if_neededIgnoresMtime(l, f, force) ==
  LET lf == _find_lockfile(f)
      l0 == [l EXCEPT !.fresh = FALSE] IN
  IF lf = "None"
  THEN [_disable(l0) EXCEPT !.lf_path = "None", !.lf_mtime = 0]
  ELSE IF force \/ lf # l.lf_path \/ ~l.ok
       THEN _init_from_lockfile([l0 EXCEPT !.lf_path = lf], f)
       ELSE l0

refresh_if_needed(l, f, force) ==
  LET lf == _find_lockfile(f)
      l0 == [l EXCEPT !.fresh = FALSE] IN
  IF lf = "None"
  THEN [_disable(l0) EXCEPT !.lf_path = "None", !.lf_mtime = 0]
  ELSE IF force \/ lf # l.lf_path \/ (f.mtime # 0 /\ f.mtime # l.lf_mtime) \/ ~l.ok
       THEN _init_from_lockfile([l0 EXCEPT !.lf_path = lf], f)
       ELSE l0

\* What self.s.get can do: answers come only from the client that wrote the
\* lockfile the credentials were read from; anything can fail.
\*   "json" a body that parses, "nojson" one that does not, "404" status 404
\*   or 405, "httperr" raise_for_status raises, "transport" no response
Failures == {"httperr", "transport"}
Outcomes(l, f) ==
  IF f.exists /\ f.good /\ l.ok /\ l.port = f.mtime
  THEN {"json", "nojson", "404"} \cup Failures
  ELSE Failures

AfterRequest404Fails(n, o) ==
  IF o = "json" THEN "data"
  ELSE IF o = "nojson" THEN "absent"
  ELSE IF n = 1 THEN "refresh" ELSE "absent"

AfterRequestRetriesAgain(n, o) ==
  IF o = "json" THEN "data"
  ELSE IF o \in {"nojson", "404"} THEN "absent"
  ELSE "refresh"

\* What get() does after its n-th request: return data, return None
\* ("absent"), or go on to the forced refresh
AfterRequest(n, o) ==
  IF o = "json" THEN "data"
  ELSE IF o \in {"nojson", "404"} THEN "absent"
  ELSE IF n = 1 THEN "refresh" ELSE "absent"

\* WSEventThread.run: pc is "top" (the while test), "sleep" (the sleep of the
\* disabled branch), "url", "origin", "token" (lines 229-231), "open",
\* "backoff", "exit"; ok0 is lcu.ok before the latest refresh and built
\* whether that refresh made a new Session; url, origin and token are the
\* port, port and password the three lines read; refreshed is whether the
\* loop has, since it started or last tried to connect, called
\* refresh_if_needed and found lcu.ok afterwards.
NoLoop == [pc |-> "top", ok0 |-> FALSE, built |-> FALSE, url |-> NoneVal,
           origin |-> NoneVal, token |-> NoneVal, refreshed |-> FALSE]

\* ------------------------------------------------------------- actions
Init ==
  /\ state = InitState
  /\ pc = "recv"
  /\ loc = NoLoc
  /\ tickers = << >>
  /\ ticker = 0
  /\ now = 0
  /\ out = NoOut
  /\ epochs = << >>
  /\ fs = [exists |-> FALSE, mtime |-> 0, good |-> TRUE]
  /\ lcu = _init_from_lockfile(NewLCU, fs)
  /\ call = NoCall
  /\ loop = NoLoop

PhaseUpdate ==
  /\ pc = "recv"
  /\ \E ph \in Phases :
       /\ state' = HandlePhase(state, ph)
       /\ epochs' = IF state.loadout_countdown_active
                       /\ ~state'.loadout_countdown_active
                    THEN MarkLast(epochs, NonTerminal, "canceled") ELSE epochs
  /\ out' = NoOut
  /\ UNCHANGED <<pc, loc, tickers, ticker, now>>
  /\ UNCHANGED lcuvars

\* A phase payload whose data is not a string
PhaseNotString ==
  /\ pc = "recv"
  /\ out' = NoOut
  /\ UNCHANGED <<state, pc, loc, tickers, ticker, now, epochs>>
  /\ UNCHANGED lcuvars

HoverUpdate ==
  /\ pc = "recv"
  /\ \E data \in HoverData : state' = HandleHover(state, data)
  /\ out' = NoOut
  /\ UNCHANGED <<pc, loc, tickers, ticker, now, epochs>>
  /\ UNCHANGED lcuvars

SessionUpdateFrom(S) ==
  /\ pc = "recv"
  /\ \E sess \in S :
       LET r == HandleSession(state, sess) IN
       /\ state' = r.st
       /\ out' = r.out
       /\ pc' = r.pc
       /\ loc' = r.loc
  /\ UNCHANGED <<tickers, ticker, now, epochs>>
  /\ UNCHANGED lcuvars

SessionUpdate == SessionUpdateFrom(Sessions)

\* One pass of the probe loop: self.lcu.session(), absent or without a timer
\* reads as 0; a malformed timer raises out of the handler.
ProbeResults == {BadVal} \cup (0 .. MaxLeft)

ProbeReadFromKeepsReported(R) ==
  /\ pc = "probe"
  /\ \E r \in R :
       IF r = BadVal THEN pc' = "recv" /\ loc' = NoLoc
       ELSE IF r > 0
       THEN pc' = "arm" /\ loc' = [loc EXCEPT !.probe_used = TRUE]
       ELSE IF loc.i + 1 = ProbeTries THEN pc' = "recv" /\ loc' = NoLoc
       ELSE pc' = "probe" /\ loc' = [loc EXCEPT !.i = @ + 1]
  /\ UNCHANGED <<state, tickers, ticker, now, out, epochs>>
  /\ UNCHANGED lcuvars

ProbeReadFrom(R) ==
  /\ pc = "probe"
  /\ \E r \in R :
       IF r = BadVal THEN pc' = "recv" /\ loc' = NoLoc
       ELSE IF r > 0
       THEN pc' = "arm" /\ loc' = [loc EXCEPT !.left_ms = r, !.probe_used = TRUE]
       ELSE IF loc.i + 1 = ProbeTries THEN pc' = "recv" /\ loc' = NoLoc
       ELSE pc' = "probe" /\ loc' = [loc EXCEPT !.i = @ + 1]
  /\ UNCHANGED <<state, tickers, ticker, now, out, epochs>>
  /\ UNCHANGED lcuvars

ProbeRead == ProbeReadFrom(ProbeResults)

TickerFreeAlways(t, ts) == TRUE

\* "if self.ticker is None or not self.ticker.is_alive()"
TickerFree(t, ts) == t = 0 \/ ~ts[t].alive

MayArmAlways(st) == TRUE

\* "if not self.state.loadout_countdown_active"
MayArm(st) == ~st.loadout_countdown_active

NextSeqSame(st) == Max(st.ticker_seq, 1)

NextSeq(st) == st.ticker_seq + 1

ArmedKeepsCurrent(st, left_ms, t) ==
  [st EXCEPT !.loadout_left0_ms = left_ms, !.loadout_t0 = t,
             !.ticker_seq = NextSeq(st),
             !.loadout_countdown_active = TRUE]

Armed(st, left_ms, t) ==
  [st EXCEPT !.loadout_left0_ms = left_ms, !.loadout_t0 = t,
             !.ticker_seq = NextSeq(st), !.current_ticker = NextSeq(st),
             !.loadout_countdown_active = TRUE]

Mode(l) ==
  IF l.phase_timer = "FINALIZATION" /\ l.left_ms > 0 THEN "finalization"
  ELSE "lcu-probe"

\* "if should_start: with self.state.timer_lock: ..." in one step
Arm ==
  /\ pc = "arm"
  /\ IF MayArm(state)
     THEN /\ state.ticker_seq < MaxArm
          /\ state' = Armed(state, loc.left_ms, now)
          /\ epochs' = Append(epochs, [seq |-> state'.ticker_seq, status |-> "armed"])
          /\ out' = [out EXCEPT !.arm = Mode(loc), !.probed = loc.probe_used]
          /\ IF TickerFree(ticker, tickers)
             THEN /\ tickers' = Append(tickers,
                       [ticker_id |-> state'.current_ticker, alive |-> TRUE,
                        last |-> NoneVal, epoch |-> Len(epochs'), start |-> now,
                        samples |-> 0, snap |-> FALSE])
                  /\ ticker' = Len(tickers')
             ELSE UNCHANGED <<tickers, ticker>>
     ELSE /\ out' = [out EXCEPT !.arm = "noop"]
          /\ UNCHANGED <<state, epochs, tickers, ticker>>
  /\ pc' = "recv"
  /\ loc' = NoLoc
  /\ UNCHANGED now
  /\ UNCHANGED lcuvars

\* ------------------------------------------------------- LoadoutTicker.run
ProjectedUnclamped(st, t) == st.loadout_left0_ms - (t - st.loadout_t0)

Projected(st, t) == Max(0, st.loadout_left0_ms - (t - st.loadout_t0))

MayTickIgnoresFlag(st, tk) == st.current_ticker = tk.ticker_id

MayTick(st, tk) == st.loadout_countdown_active /\ st.current_ticker = tk.ticker_id

\* self.fallback_ms, the fallback duration the thread gives its tickers: long
\* enough for any one anchor to run out first
FallbackMs == MaxLeft + 1

FallbackElapsed(tk, t) == FallbackMs > 0 /\ t - tk.start >= FallbackMs

\* One pass of the ticker's loop: the test of its captured sequence number,
\* of the countdown flag and of the fallback, and the tick it emits. The
\* projection reaching zero and the fallback elapsing end the epoch (expired).
TickerStep(i) ==
  /\ tickers[i].alive
  /\ IF MayTick(state, tickers[i]) /\ ~FallbackElapsed(tickers[i], now)
     THEN LET remain == Projected(state, now) IN
          /\ tickers' = [tickers EXCEPT ![i].last = remain,
                                        ![i].alive = (remain > 0),
                                        ![i].snap = FALSE]
          /\ state' = IF remain > 0 THEN state
                      ELSE [state EXCEPT !.loadout_countdown_active = FALSE]
          /\ epochs' = [epochs EXCEPT ![tickers[i].epoch].status =
                          IF remain > 0 THEN "ticking" ELSE "expired"]
     ELSE IF MayTick(state, tickers[i])
     THEN /\ tickers' = [tickers EXCEPT ![i].alive = FALSE]
          /\ state' = [state EXCEPT !.loadout_countdown_active = FALSE]
          /\ epochs' = [epochs EXCEPT ![tickers[i].epoch].status = "expired"]
     ELSE /\ tickers' = [tickers EXCEPT ![i].alive = FALSE]
          /\ epochs' = IF epochs[tickers[i].epoch].status \in NonTerminal
                       THEN [epochs EXCEPT ![tickers[i].epoch].status = "superseded"]
                       ELSE epochs
          /\ UNCHANGED state
  /\ UNCHANGED <<pc, loc, ticker, now, out>>
  /\ UNCHANGED lcuvars

TickerRun == \E i \in 1 .. Len(tickers) : TickerStep(i)

\* A valid re-sample: the ticker reads a positive remaining time from the
\* session endpoint and snaps the anchor to it and to the present instant
Resamples == 1 .. MaxLeft

TickerResample(i) ==
  /\ tickers[i].alive
  /\ MayTick(state, tickers[i])
  /\ tickers[i].samples < MaxSample
  /\ \E v \in Resamples :
       state' = [state EXCEPT !.loadout_left0_ms = v, !.loadout_t0 = now]
  /\ tickers' = [tickers EXCEPT ![i].samples = @ + 1, ![i].snap = TRUE]
  /\ UNCHANGED <<pc, loc, ticker, now, out, epochs>>
  /\ UNCHANGED lcuvars

TickerSample == \E i \in 1 .. Len(tickers) : TickerResample(i)

Tick ==
  /\ now < MaxNow
  /\ now' = now + 1
  /\ UNCHANGED <<state, pc, loc, tickers, ticker, out, epochs>>
  /\ UNCHANGED lcuvars

\* The clock past MaxNow, for as long as the countdown has time left
TickOut ==
  /\ now >= MaxNow
  /\ state.loadout_countdown_active
  /\ Projected(state, now) > 0
  /\ now' = now + 1
  /\ UNCHANGED <<state, pc, loc, tickers, ticker, out, epochs>>
  /\ UNCHANGED lcuvars

\* get(): "if not self.ok: self.refresh_if_needed(); if not self.ok: return None"
GetEntry ==
  /\ call.pc = "idle"
  /\ LET l == IF lcu.ok THEN lcu ELSE refresh_if_needed(lcu, fs, FALSE) IN
     /\ lcu' = l
     /\ call' = IF l.ok
                THEN [NoCall EXCEPT !.pc = "req1", !.ok0 = lcu.ok]
                ELSE [NoCall EXCEPT !.pc = "done", !.ok0 = lcu.ok, !.result = "absent"]
  /\ UNCHANGED fs
  /\ UNCHANGED <<loop, wsvars>>

\* The request of the try block (n = 1) or of the except block (n = 2)
Request(n) ==
  /\ call.pc = (IF n = 1 THEN "req1" ELSE "req2")
  /\ \E o \in Outcomes(lcu, fs) :
       LET a == AfterRequest(n, o) IN
       call' = [call EXCEPT !.reqs = @ + 1,
                            !.first = IF n = 1 THEN o ELSE @,
                            !.last = o,
                            !.pc = IF a = "refresh" THEN "refresh" ELSE "done",
                            !.result = IF a = "refresh" THEN "" ELSE a]
  /\ UNCHANGED <<fs, lcu>>
  /\ UNCHANGED <<loop, wsvars>>

GetRequest == Request(1)
GetRetry == Request(2)

\* "self.refresh_if_needed(force=True); if not self.ok: return None"
GetRefresh ==
  /\ call.pc = "refresh"
  /\ lcu' = refresh_if_needed(lcu, fs, TRUE)
  /\ call' = IF lcu'.ok
             THEN [call EXCEPT !.forced = @ + 1, !.pc = "req2"]
             ELSE [call EXCEPT !.forced = @ + 1, !.pc = "done", !.result = "absent"]
  /\ UNCHANGED fs
  /\ UNCHANGED <<loop, wsvars>>

GetReturn ==
  /\ call.pc = "done"
  /\ call' = NoCall
  /\ UNCHANGED <<fs, lcu>>
  /\ UNCHANGED <<loop, wsvars>>

\* The client starts and writes a lockfile (complete or not), or rewrites it
WriteLockfile ==
  /\ fs.mtime < MaxMtime
  /\ \E g \in BOOLEAN : fs' = [exists |-> TRUE, mtime |-> fs.mtime + 1, good |-> g]
  /\ UNCHANGED <<lcu, call>>
  /\ UNCHANGED <<loop, wsvars>>

\* The client exits and its lockfile goes
RemoveLockfile ==
  /\ fs.exists
  /\ fs' = [fs EXCEPT !.exists = FALSE]
  /\ UNCHANGED <<lcu, call>>
  /\ UNCHANGED <<loop, wsvars>>

\* ------------------------------------------------------------ _on_message
\* A received frame, reduced to what _on_message and _handle_api_event test:
\*   kind   "undecodable" (json.loads raises), or what it decodes to: a
\*          "list", a "dict", or a "scalar" (number, string, null)
\*   len, first, third   of a list: its length, its first element, and whether
\*          its third element is a "dict"
\*   uri    of the payload (the list's third element, or the dict itself):
\*          "absent" no "uri" key, "empty" a false value, else what it routes to
Uris == {"absent", "empty", "phase", "hover", "session", "other"}
Frame(k, n, h, t, u) == [kind |-> k, len |-> n, first |-> h, third |-> t, uri |-> u]
Frames ==
  {Frame("undecodable", 0, 0, "scalar", "absent"), Frame("scalar", 0, 0, "scalar", "absent")}
    \cup {Frame("list", n, h, t, u) :
            n \in {2, 3, 4}, h \in {8, 5}, t \in {"dict", "scalar"}, u \in Uris}
    \cup {Frame("dict", 0, 0, "scalar", u) : u \in Uris}

\* _handle_api_event's "if not uri: return" and its if/elif chain
Route(uri) ==
  IF uri \in {"absent", "empty"} THEN "drop"
  ELSE IF uri \in {"phase", "hover", "session"} THEN uri
  ELSE "none"

DispatchAnyList(f) ==
  IF f.kind = "undecodable" THEN "drop"
  ELSE IF f.kind = "list" /\ f.len >= 3
       THEN (IF f.third = "dict" THEN Route(f.uri) ELSE "drop")
  ELSE IF f.kind = "dict" /\ f.uri # "absent" THEN Route(f.uri)
  ELSE "drop"

\* Which branch of _handle_api_event a frame reaches: "phase", "hover",
\* "session", "none" (an event no branch handles), or "drop"
Dispatch(f) ==
  IF f.kind = "undecodable" THEN "drop"
  ELSE IF f.kind = "list" /\ f.len >= 3
       THEN (IF f.first = 8 /\ f.third = "dict" THEN Route(f.uri) ELSE "drop")
  ELSE IF f.kind = "dict" /\ f.uri # "absent" THEN Route(f.uri)
  ELSE "drop"

\* _on_message on frame f, the session payloads drawn from S
OnMessageOf(f, S) ==
  IF Dispatch(f) = "phase" THEN PhaseUpdate \/ PhaseNotString
  ELSE IF Dispatch(f) = "hover" THEN HoverUpdate
  ELSE IF Dispatch(f) = "session" THEN SessionUpdateFrom(S)
  ELSE /\ pc = "recv"
       /\ out' = [NoOut EXCEPT !.kind = IF Dispatch(f) = "none" THEN "unrouted"
                                        ELSE "dropped"]
       /\ UNCHANGED <<state, pc, loc, tickers, ticker, now, epochs>>
       /\ UNCHANGED lcuvars

OnMessageFrom(S) == \E f \in Frames : OnMessageOf(f, S)

OnMessage == OnMessageFrom(Sessions)

\* ------------------------------------------------- WSEventThread.run
\* "while not self.state.stop: self.lcu.refresh_if_needed(); if not
\* self.lcu.ok: time.sleep(1.0); continue"
LoopRefresh ==
  /\ loop.pc = "top"
  /\ ~state.stop
  /\ lcu' = refresh_if_needed(lcu, fs, FALSE)
  /\ loop' = [loop EXCEPT !.pc = IF lcu'.ok THEN "url" ELSE "sleep",
                          !.ok0 = lcu.ok, !.built = lcu'.fresh,
                          !.refreshed = lcu'.ok]
  /\ UNCHANGED <<fs, call>>
  /\ UNCHANGED wsvars

LoopExit ==
  /\ loop.pc = "top"
  /\ state.stop
  /\ loop' = [loop EXCEPT !.pc = "exit"]
  /\ UNCHANGED <<fs, lcu, call>>
  /\ UNCHANGED wsvars

LoopSleep ==
  /\ loop.pc \in {"sleep", "backoff"}
  /\ loop' = [loop EXCEPT !.pc = "top"]
  /\ UNCHANGED <<fs, lcu, call>>
  /\ UNCHANGED wsvars

\* url = f"wss://127.0.0.1:{self.lcu.port}/"
LoopReadUrl ==
  /\ loop.pc = "url"
  /\ loop' = [loop EXCEPT !.pc = "origin", !.url = lcu.port]
  /\ UNCHANGED <<fs, lcu, call>>
  /\ UNCHANGED wsvars

\* origin = f"https://127.0.0.1:{self.lcu.port}"
LoopReadOrigin ==
  /\ loop.pc = "origin"
  /\ loop' = [loop EXCEPT !.pc = "token", !.origin = lcu.port]
  /\ UNCHANGED <<fs, lcu, call>>
  /\ UNCHANGED wsvars

\* token = base64.b64encode(f"riot:{self.lcu.pw}" ...)
LoopReadToken ==
  /\ loop.pc = "token"
  /\ loop' = [loop EXCEPT !.pc = "open", !.token = lcu.pw]
  /\ UNCHANGED <<fs, lcu, call>>
  /\ UNCHANGED wsvars

\* WebSocketApp(...).run_forever(...) until it returns or raises
LoopOpen ==
  /\ loop.pc = "open"
  /\ loop' = [loop EXCEPT !.pc = "backoff", !.refreshed = FALSE]
  /\ UNCHANGED <<fs, lcu, call>>
  /\ UNCHANGED wsvars

\* The process is told to stop
Stop ==
  /\ ~state.stop
  /\ state' = [state EXCEPT !.stop = TRUE]
  /\ UNCHANGED <<pc, loc, tickers, ticker, now, out, epochs>>
  /\ UNCHANGED lcuvars

Next ==
  \/ PhaseUpdate
  \/ PhaseNotString
  \/ HoverUpdate
  \/ SessionUpdate
  \/ ProbeRead
  \/ Arm
  \/ TickerRun
  \/ Tick
  \/ GetEntry
  \/ GetRequest
  \/ GetRetry
  \/ GetRefresh
  \/ GetReturn
  \/ WriteLockfile
  \/ RemoveLockfile
  \/ LoopRefresh
  \/ LoopExit
  \/ LoopSleep
  \/ LoopReadUrl
  \/ LoopReadOrigin
  \/ LoopReadToken
  \/ LoopOpen
  \/ Stop
  \/ OnMessage
  \/ TickerSample
  \/ TickOut

Spec == Init /\ [][Next]_vars

\* ------------------------------------------------ the restricted specifications
\* Spec's state space is the product of the derived session state, the
\* countdown's and the connection manager's; each property is stated over a
\* restriction of Spec that keeps one factor moving. Every behaviour of
\* SpecDerive, SpecEpoch and SpecLCU is a behaviour of Spec.

\* SpecDerive: every roster, action list and local slot; the timer reports no
\* remaining time (or is malformed) and the probe reads find none, so no
\* epoch is armed.
DeriveSessions ==
  {s \in SessionSet({NoneVal, 0, BadVal}, (SUBSET Cells) \cup {{BadVal}},
                    [Cells -> (0 - 1) .. MaxChamp], {BadVal, 0}) :
     s.tphase = "BAN_PICK"}

NextDerive ==
  \/ PhaseUpdate
  \/ PhaseNotString
  \/ HoverUpdate
  \/ SessionUpdateFrom(DeriveSessions)
  \/ ProbeReadFrom({BadVal, 0})

SpecDerive == Init /\ [][NextDerive]_vars

\* SpecEpoch: every timer and probe result, the ticker and the clock; the
\* rosters show slot 0 or nobody, and only slot 0 locks.
EpochSessions ==
  SessionSet({NoneVal}, {{}, {0}},
             {[c \in Cells |-> IF c = 0 THEN a ELSE 0 - 1] : a \in {0 - 1, 1}},
             {0, MaxLeft})

NextEpoch ==
  \/ PhaseUpdate
  \/ PhaseNotString
  \/ HoverUpdate
  \/ SessionUpdateFrom(EpochSessions)
  \/ ProbeRead
  \/ Arm
  \/ TickerRun
  \/ Tick

SpecEpoch == Init /\ [][NextEpoch]_vars

\* SpecTicker: one payload, which arms at once; the ticker with its re-samples
\* and its fallback; the clock runs every countdown out. SpecTickerLive adds
\* that a ticker thread that can step does step, and that time passes.
TickerSessions ==
  {s \in SessionSet({NoneVal}, {{0}}, {[c \in Cells |-> 0 - 1]}, {MaxLeft}) :
     s.tphase = "FINALIZATION"}

NextTicker ==
  \/ PhaseUpdate
  \/ SessionUpdateFrom(TickerSessions)
  \/ Arm
  \/ TickerRun
  \/ TickerSample
  \/ Tick
  \/ TickOut

SpecTicker == Init /\ [][NextTicker]_vars

SpecTickerLive ==
  /\ Init
  /\ [][NextTicker]_vars
  /\ WF_vars(TickerRun)
  /\ WF_vars(Tick)
  /\ WF_vars(TickOut)

\* SpecFrame: every frame shape; the session payloads show slot 0 or nobody,
\* only slot 0 locks, and no timer or probe reports remaining time.
FrameSessions ==
  {s \in SessionSet({NoneVal}, {{}, {0}},
                    {[c \in Cells |-> IF c = 0 THEN a ELSE 0 - 1] : a \in {0 - 1, 1}},
                    {0}) :
     s.tphase = "BAN_PICK"}

NextFrame ==
  \/ OnMessageFrom(FrameSessions)
  \/ ProbeReadFrom({0})

SpecFrame == Init /\ [][NextFrame]_vars

\* SpecLCU: the connection manager, its lockfile, one caller of get() and
\* the ingestion loop
NextLCU ==
  \/ GetEntry
  \/ GetRequest
  \/ GetRetry
  \/ GetRefresh
  \/ GetReturn
  \/ WriteLockfile
  \/ RemoveLockfile
  \/ LoopRefresh
  \/ LoopExit
  \/ LoopSleep
  \/ LoopReadUrl
  \/ LoopReadOrigin
  \/ LoopReadToken
  \/ LoopOpen
  \/ Stop

SpecLCU == Init /\ [][NextLCU]_vars

\* ===================================================================
\* Claims
\* ===================================================================

\* A step in which the ingestion unit handles one session update
SessionStep ==
  /\ pc = "recv"
  /\ out'.kind = "session"
  /\ UNCHANGED <<tickers, ticker, now, epochs>>
  /\ (out' # out \/ state' # state \/ pc' # pc)

\* A step in which a phase update takes the reset branch (new phase, not ChampSelect)
PhaseExitStep ==
  /\ pc = "recv"
  /\ state'.phase # state.phase
  /\ state'.phase # "ChampSelect"

LockDiff(P, N, o, stored) ==
  /\ o.added = Keys(N) \ Keys(P)
  /\ o.removed = Keys(P) \ Keys(N)
  /\ stored = N

\* C1: for every session update, with P the stored lock map before it and N the
\* payload's lock map, the logged added set is keys(N) \ keys(P), the logged
\* removed set is keys(P) \ keys(N), and the stored map afterwards is N.
C1_LockDiffEveryUpdate ==
  [][SessionStep =>
       LockDiff(state.locks_by_cell, out'.new, out', state'.locks_by_cell)]_vars

\* The same for the updates whose handler reaches the timer (no derivation
\* before it raised).
LockDiffWhenReached ==
  [][SessionStep /\ out'.stage \in {"done", "timer"} =>
       LockDiff(state.locks_by_cell, out'.new, out', state'.locks_by_cell)]_vars

\* C2: the all-locked event fires exactly on the first update of a streak: on
\* a session update that ends with visible-count > 0 and lock-count >=
\* visible-count when the state before it did not satisfy that, and on no other.
C2_FiresOnFirstOfStreak ==
  [][SessionStep => (out'.fired <=> (AllLocked(state') /\ ~AllLocked(state)))]_vars

\* C3: a nonzero stored visible player count becomes zero only in a phase
\* update that takes the reset branch; a session update writes the count only
\* when the recomputed count is nonzero and differs, and then writes that count.
C3_CountNeverZeroed ==
  [][/\ (state.players_visible > 0 /\ state'.players_visible = 0) => PhaseExitStep
     /\ SessionStep =>
          /\ out'.count <= 0 => state'.players_visible = state.players_visible
          /\ state'.players_visible # state.players_visible =>
               /\ out'.count > 0
               /\ state'.players_visible = out'.count]_vars

\* C3 witness: an empty snapshot was handled and the count it found stays stored
C3_EmptySnapshotKept ==
  out.kind = "session" /\ out.count = 0 /\ state.players_visible > 0

\* ------------------------------------------------------------ countdown
ActiveEpochs(es) == {i \in DOMAIN es : es[i].status \in NonTerminal}
AliveTickers(ts) == {i \in DOMAIN ts : ts[i].alive}

\* A step in which the arming attempt is made (the block under timer_lock)
ArmStep == pc = "arm" /\ pc' = "recv" /\ out'.arm # ""

\* An arming attempt that took effect: a new epoch exists
ArmEffect == ArmStep /\ Len(epochs') > Len(epochs)

\* C4: after a phase update whose new phase differs from the stored one and is
\* not ChampSelect, the hovered-character id is None, the visible player count
\* is 0, the lock map is empty, the all-locked flag is unset and no countdown
\* epoch is active, whatever the state before.
C4_PhaseExitClears ==
  [][PhaseExitStep =>
       /\ state'.hovered_champ_id = NoneVal
       /\ state'.players_visible = 0
       /\ state'.locks_by_cell = EmptyMap
       /\ ~state'.all_locked_announced
       /\ ~state'.loadout_countdown_active
       /\ ActiveEpochs(epochs') = {}]_vars

\* C4 witness: an epoch that had emitted ticks was canceled by a phase exit: the
\* state is cleared while the epoch's ticker has not yet observed it
C4_TickingEpochCanceled ==
  /\ state.phase = "Lobby"
  /\ out.kind = "other"
  /\ epochs # << >>
  /\ epochs[Len(epochs)].status = "canceled"
  /\ \E i \in AliveTickers(tickers) :
       tickers[i].epoch = Len(epochs) /\ tickers[i].last > 0

\* C5: an arming attempt made while the countdown is active changes neither
\* the anchor (loadout_left0_ms, loadout_t0), nor ticker_seq, nor
\* current_ticker, nor the ticker threads, nor which thread self.ticker is;
\* and it creates no epoch.
C5_ArmWhileActiveNoOp ==
  [][ArmStep /\ state.loadout_countdown_active =>
       /\ state' = state
       /\ tickers' = tickers
       /\ ticker' = ticker
       /\ epochs' = epochs]_vars

\* C5 witness: an arming attempt found the countdown active, a ticker running
C5_NoOpAttemptMade ==
  /\ out.arm = "noop"
  /\ state.loadout_countdown_active
  /\ AliveTickers(tickers) # {}

\* C6: an arming that takes effect sets ticker_seq above the sequence number
\* of every earlier epoch, and no step decreases ticker_seq.
C6_SeqStrictlyIncreases ==
  [][/\ state'.ticker_seq >= state.ticker_seq
     /\ ArmEffect =>
          /\ state'.ticker_seq > state.ticker_seq
          /\ \A i \in DOMAIN epochs : state'.ticker_seq > epochs[i].seq]_vars

\* C6 witness: a second epoch was armed after the first was canceled
C6_SecondEpochArmed ==
  /\ Len(epochs) = 2
  /\ epochs[1].status = "canceled"
  /\ state.ticker_seq = 2

\* C7: in every reachable state at most one epoch is armed or ticking and at
\* most one ticker thread is alive.
C7_OneEpochOneTicker ==
  /\ Cardinality(ActiveEpochs(epochs)) <= 1
  /\ Cardinality(AliveTickers(tickers)) <= 1

\* C7 witness: re-armed after a cancellation while the canceled epoch's ticker
\* is still alive
C7_RearmedBeforeTickerExit ==
  /\ Len(epochs) = 2
  /\ epochs[2].status = "armed"
  /\ state.loadout_countdown_active
  /\ tickers # << >>
  /\ tickers[1].alive

\* A step in which ticker thread i emits a tick with a new value
TickEmitted(i) ==
  /\ i \in DOMAIN tickers'
  /\ tickers[i].alive
  /\ tickers'[i].last # tickers[i].last

\* C8: a ticker emits a tick only from a state where its captured sequence
\* number is current_ticker, and never after a later arming took effect.
C8_TickOnlyWhileCurrent ==
  [][\A i \in DOMAIN tickers :
       TickEmitted(i) =>
         /\ tickers[i].ticker_id = state.current_ticker
         /\ tickers[i].epoch = Len(epochs)]_vars

\* C8 witness: a ticker that has emitted ticks is still alive after a later
\* arming changed current_ticker
C8_SupersededTickerAlive ==
  \E i \in AliveTickers(tickers) :
    /\ tickers[i].last # NoneVal
    /\ tickers[i].ticker_id # state.current_ticker
    /\ tickers[i].epoch < Len(epochs)

\* The triggers an arming can rest on, read at the arming attempt
AuthoritativeTrigger == loc.phase_timer = "FINALIZATION" /\ loc.reported > 0
ProbeTrigger ==
  AllLocked(state) /\ loc.reported <= 0 /\ loc.probe_used /\ loc.left_ms > 0
DirectTrigger ==
  /\ AllLocked(state)
  /\ loc.phase_timer # "FINALIZATION"
  /\ loc.reported > 0
  /\ ~loc.probe_used
  /\ loc.left_ms = loc.reported

\* C9 as stated: an epoch is armed only on the authoritative trigger or on the
\* probe trigger.
C9_ArmsOnlyOnTwoTriggers ==
  [][ArmEffect => (AuthoritativeTrigger \/ ProbeTrigger)]_vars

\* C9 amended: an epoch is armed only on the authoritative trigger, on the
\* probe trigger, or when all visible players are locked and the payload
\* already reports a positive remaining time (no probe is made then).
C9_ArmsOnlyOnThreeTriggers ==
  [][ArmEffect => (AuthoritativeTrigger \/ ProbeTrigger \/ DirectTrigger)]_vars

\* C9 witness: an epoch armed with all players locked, no finalization and no probe
C9_ArmedDirectly ==
  /\ out.arm = "lcu-probe"
  /\ ~out.probed
  /\ state.loadout_countdown_active

\* ------------------------------------------------------ connection manager
\* C10: no get() call makes more than two requests or more than one forced
\* refresh; a retry is made only after the forced refresh; a call that has
\* returned returned data or None; and a call on an enabled connection whose
\* first request failed made exactly one forced refresh.
C10_OneRefreshOneRetry ==
  /\ call.reqs <= 2
  /\ call.forced <= 1
  /\ call.reqs = 2 => call.forced = 1
  /\ call.pc = "req2" => (call.forced = 1 /\ call.reqs = 1)
  /\ call.pc = "done" =>
       /\ call.result \in {"data", "absent"}
       /\ (call.ok0 /\ call.first \in Failures) => call.forced = 1

\* C10 witness: a call on an enabled connection has returned after its first
\* request and its retry both failed
C10_RetriedAndFailed ==
  /\ call.pc = "done"
  /\ call.ok0
  /\ call.first = "transport"
  /\ call.reqs = 2
  /\ call.result = "absent"

\* A step in which get() makes its first request or its retry
RequestStep == call.pc \in {"req1", "req2"} /\ call'.reqs = call.reqs + 1

\* C11 as stated: when the first request and the retry of one get() call both
\* fail with a transport failure, the call returns None and the connection
\* is disabled (ok = False) when it returns, also when the forced refresh in
\* between re-read the credentials.
C11_TwoFailuresDisable ==
  [][(RequestStep /\ call.pc = "req2" /\ call.first = "transport"
        /\ call'.last = "transport")
       => (call'.pc = "done" /\ call'.result = "absent" /\ ~lcu'.ok)]_vars

\* A step in which the ingestion loop calls refresh_if_needed() (not forced)
LoopRefreshStep == loop.pc = "top" /\ loop'.pc \in {"url", "sleep"}

\* The descriptor's (path, modification time) is not what the connection stored
DescriptorChanged == _find_lockfile(fs) # lcu.lf_path \/ fs.mtime # lcu.lf_mtime

\* C12: a non-forced refresh of an enabled connection rebuilds the connection
\* if and only if the descriptor's (path, modification time) differs from the
\* stored one; when it does not differ, port, secret, session and stored
\* modification time stay as they are; and a rebuild from a rotated
\* descriptor stores the new modification time, so that the next refresh
\* finds no change.
C12_RebuiltOncePerChange ==
  [][(LoopRefreshStep /\ lcu.ok) =>
       /\ loop'.built <=> DescriptorChanged
       /\ ~DescriptorChanged =>
            /\ lcu'.port = lcu.port /\ lcu'.pw = lcu.pw /\ lcu'.s = lcu.s
            /\ lcu'.base = lcu.base /\ lcu'.lf_mtime = lcu.lf_mtime
            /\ ~lcu'.fresh
       /\ (DescriptorChanged /\ fs.exists /\ fs.good) =>
            /\ lcu'.ok /\ lcu'.lf_mtime = fs.mtime
            /\ lcu'.port = fs.mtime /\ lcu'.pw = fs.mtime /\ lcu'.s = fs.mtime]_vars

\* C12 witness: the loop's refresh found an enabled connection and a rotated
\* lockfile, and rebuilt the connection from it
C12_RotationRebuilt ==
  /\ loop.pc = "url"
  /\ loop.ok0
  /\ loop.built
  /\ lcu.ok
  /\ lcu.lf_mtime > 1
  /\ lcu.lf_mtime = fs.mtime

\* C13 as stated, for the ingestion loop's reads of port (twice) and secret
\* while another unit's get() refreshes the connection: the credentials it
\* opens the subscription with are all of one reading of the lockfile.
C13_NoMixedCredentials ==
  (loop.pc = "open" /\ loop.url # NoneVal /\ loop.origin # NoneVal
     /\ loop.token # NoneVal)
    => (loop.url = loop.origin /\ loop.origin = loop.token)

\* C20: a request of get() answered with status 404 or 405 ends the call: it
\* returns None, no forced refresh or retry follows, and the connection's
\* fields are left as they are; this holds for the first request and for
\* the retry.
C20_NotFoundIsAbsent ==
  [][(RequestStep /\ call'.last = "404") =>
       /\ call'.pc = "done"
       /\ call'.result = "absent"
       /\ call'.forced = call.forced
       /\ lcu' = lcu
       /\ call.pc = "req1" => (call'.forced = 0 /\ call'.reqs = 1)]_vars

\* C20 witness: the retry of a call was answered 404 and the call returned
\* None with the connection still enabled
C20_RetryNotFound ==
  /\ call.pc = "done"
  /\ call.reqs = 2
  /\ call.first \in Failures
  /\ call.last = "404"
  /\ call.result = "absent"
  /\ lcu.ok

\* ------------------------------------------------- per-derivation isolation
\* The derivations of a session update whose input field is malformed in sess
MalformedIn(sess) ==
  {k \in {"team", "local", "timer"} :
     \/ k = "team" /\ TeamMalformed(sess)
     \/ k = "local" /\ sess.local = BadVal
     \/ k = "timer" /\ TimerMalformed(sess)}

OneMalformed == {sess \in DeriveSessions : Cardinality(MalformedIn(sess)) = 1}

\* What C14 asks of a session update: every derivation is applied but the
\* one that fails (the visible count on a malformed roster, the lock diff on a
\* malformed local slot, the arming on a malformed timer)
Isolated(st, sess) ==
  LET s1 == SessLocal(st, sess)
      s2 == IF TeamMalformed(sess) THEN s1 ELSE SessVisible(s1, sess)
      s3 == IF LocalMalformed(s2, sess) THEN s2 ELSE SessLocks(s2, sess)
      s4 == SessAllLocked(s3)
  IN [st |-> s4, pc |-> IF TimerMalformed(sess) THEN "recv" ELSE Decide(s4, sess)]

\* The step is the handling of payload sess
HandledAs(sess) ==
  LET r == HandleSession(state, sess) IN
  /\ pc = "recv"
  /\ state' = r.st
  /\ out' = r.out
  /\ pc' = r.pc
  /\ loc' = r.loc

\* C14 as stated: after a session update whose payload has exactly one
\* malformed field, the state is the one obtained by applying all the other
\* derivations and skipping only the failing one.
C14_DerivationsIsolated ==
  [][\A sess \in OneMalformed :
       (SessionStep /\ HandledAs(sess)) =>
          (state' = Isolated(state, sess).st /\ pc' = Isolated(state, sess).pc)]_vars

\* ------------------------------------------------------------------ frames
\* The two frame shapes C15 names: an ordered sequence of length >= 3 whose
\* first element is 8 and whose third is an object, or a bare object that
\* contains the routing key
Accepted(f) ==
  \/ f.kind = "list" /\ f.len >= 3 /\ f.first = 8 /\ f.third = "dict"
  \/ f.kind = "dict" /\ f.uri # "absent"

\* C15: the handling of a frame that does not decode or is of neither shape,
\* or of an event whose routing key is none of the three, changes no
\* SharedState field and leaves the ingestion unit waiting for the next frame.
C15_OtherFramesDropped ==
  [][\A f \in Frames :
       (OnMessageOf(f, FrameSessions)
          /\ (~Accepted(f) \/ f.uri \notin {"phase", "hover", "session"}))
         => (state' = state /\ pc' = "recv" /\ epochs' = epochs
               /\ tickers' = tickers)]_vars

\* C15 witness: a frame was dropped in a state that holds derived fields
C15_DroppedWithState ==
  /\ out.kind = "dropped"
  /\ state.players_visible > 0
  /\ state.locks_by_cell # EmptyMap

\* ------------------------------------------------------------------ ticker
\* A step in which ticker thread i emits a tick (not its exit without one,
\* not a re-sample)
Emitted(i) ==
  /\ tickers[i].alive
  /\ tickers'[i] # tickers[i]
  /\ tickers'[i].samples = tickers[i].samples
  /\ ~(~tickers'[i].alive /\ tickers'[i].last = tickers[i].last)

\* max(0, anchorRemaining - (now - anchorInstant)) for the stored anchor
AnchorProjection == Max(0, state.loadout_left0_ms - (now - state.loadout_t0))

TickerStepOf(i) ==
  /\ tickers[i].alive
  /\ tickers'[i] # tickers[i]
  /\ tickers'[i].samples = tickers[i].samples

Superseded(i) == state.current_ticker # tickers[i].ticker_id
Canceled(i) == ~state.loadout_countdown_active

C18_ArmingStartsTicker ==
  [][ArmEffect =>
       \E i \in DOMAIN tickers' :
          tickers'[i].alive /\ tickers'[i].ticker_id = state'.current_ticker]_vars

\* A step of the probe loop: one direct read of the session endpoint
ProbeStep == pc = "probe" /\ (pc' # pc \/ loc' # loc)

\* C19: the probe loop is entered with no read made and makes its i-th read
\* only for i <= 8; a read changes no SharedState field, no epoch and no
\* ticker; a read that reports a positive time ends the loop and goes on to
\* arm with that value; a read that does not is counted, and after the 8th
\* the handler returns without arming; an arming that takes effect after a
\* probe anchors the epoch at the probed value and the present instant.
C19_ProbeBoundedThenArms ==
  /\ [][pc' = "probe" => (loc'.i < ProbeTries /\ ~loc'.probe_used)]_vars
  /\ [][ProbeStep =>
          /\ state' = state /\ epochs' = epochs /\ tickers' = tickers
          /\ pc' = "arm" => (loc'.probe_used /\ loc'.left_ms > 0 /\ loc'.i = loc.i)
          /\ pc' = "probe" => (loc'.i = loc.i + 1 /\ loc'.left_ms <= 0)
          /\ pc' = "recv" => loc' = NoLoc]_vars
  /\ [][(ArmEffect /\ loc.probe_used) =>
          /\ state'.loadout_left0_ms = loc.left_ms
          /\ state'.loadout_t0 = now]_vars

\* C19 witness: seven reads have reported no remaining time and the eighth
\* is about to be made
C19_LastReadPending ==
  /\ pc = "probe"
  /\ loc.i = ProbeTries - 1
  /\ ~state.loadout_countdown_active

\* The ingestion loop tries to open the subscription: WebSocketApp(...) and
\* run_forever(...), until the connection closes or the attempt fails
AttemptStep == loop.pc = "open" /\ loop'.pc = "backoff"

\* C21 as stated: every attempt of the ingestion loop to open the
\* subscription follows a refresh, made since the previous attempt, that left
\* the connection enabled; no attempt is made while the connection is
\* disabled; after an attempt the loop backs off and must refresh again
\* before the next one; and no attempt is made once the stop flag is set.
C21_AttemptsFollowEnabledRefresh ==
  [][ /\ AttemptStep => (loop.refreshed /\ lcu.ok /\ ~state.stop)
      /\ AttemptStep => ~loop'.refreshed
      /\ loop.pc = "backoff" => loop'.pc \in {"backoff", "top"} ]_vars

\* What the loop's own control flow guarantees: an attempt follows a refresh
\* of the same iteration that left the connection enabled, and the loop then
\* backs off to the stop test.
AttemptFollowsOwnRefresh ==
  [][ /\ AttemptStep => (loop.refreshed /\ ~loop'.refreshed)
      /\ loop.pc = "backoff" => loop'.pc \in {"backoff", "top"} ]_vars

\* Once the stop flag is set no iteration begins
NoIterationAfterStop ==
  [][ (state.stop /\ loop.pc = "top") => loop'.pc \in {"top", "exit"} ]_vars

\* An attempt made although another unit's get() has disabled the
\* connection since the loop's refresh
AttemptWhileDisabled == loop.pc = "open" /\ ~lcu.ok /\ ~state.stop

\* An attempt about to be made although the stop flag was set after the
\* loop's test of it
AttemptAfterStop == loop.pc = "open" /\ lcu.ok /\ state.stop

\* all_locked_announced says what the stored count and lock map say
AnnouncedIffAllLocked == state.all_locked_announced <=> AllLocked(state)

\* C22 as stated: whenever the ingestion unit has processed an API event to
\* its end and waits for the next one, all_locked_announced is set if and
\* only if players_visible > 0 and the stored lock map has at least
\* players_visible entries.
C22_AnnouncedIffAllLocked ==
  (pc = "recv" /\ out.stage = "done") => AnnouncedIffAllLocked

\* An event processed to its end keeps the equivalence where it held before
AnnouncedIffAllLockedKept ==
  [][ (AnnouncedIffAllLocked /\ out'.stage = "done") => AnnouncedIffAllLocked' ]_vars

\* An event that raised after storing the count and before storing the locks
\* left the flag set with fewer locks than visible players
AnnouncedWithFewerLocks ==
  /\ pc = "recv"
  /\ state.all_locked_announced
  /\ LockedCount(state) < state.players_visible

\* A phase exit that cancels the active countdown
CancelStep == PhaseExitStep /\ state.loadout_countdown_active

\* C23: in every reachable state current_ticker equals ticker_seq, and while
\* loadout_countdown_active is set loadout_left0_ms is positive; a phase exit
\* clears loadout_countdown_active and leaves ticker_seq, current_ticker and
\* the anchor (loadout_left0_ms, loadout_t0) as they were, so that the ticker
\* of the epoch it cancels still holds the current sequence number.
C23_EpochFieldsConsistent ==
  /\ [](state.current_ticker = state.ticker_seq)
  /\ [](state.loadout_countdown_active => state.loadout_left0_ms > 0)
  /\ [][PhaseExitStep =>
          /\ ~state'.loadout_countdown_active
          /\ state'.ticker_seq = state.ticker_seq
          /\ state'.current_ticker = state.current_ticker
          /\ state'.loadout_left0_ms = state.loadout_left0_ms
          /\ state'.loadout_t0 = state.loadout_t0]_vars
  /\ [][CancelStep =>
          \A i \in AliveTickers(tickers') :
            tickers'[i].epoch = Len(epochs')
              => tickers'[i].ticker_id = state'.current_ticker]_vars

\* C23 witness: a phase exit has canceled the second epoch; its ticker is
\* alive and holds the current sequence number, and the anchor is still there
C23_CanceledTickerStillCurrent ==
  /\ state.phase = "Lobby"
  /\ out.kind = "other"
  /\ ~state.loadout_countdown_active
  /\ state.ticker_seq = 2
  /\ state.loadout_left0_ms > 0
  /\ epochs # << >>
  /\ epochs[Len(epochs)].status = "canceled"
  /\ \E i \in AliveTickers(tickers) :
       tickers[i].epoch = Len(epochs) /\ tickers[i].ticker_id = state.current_ticker

====
